---- MODULE Spec2Model ----
(***************************************************************************)
(* The two generator scripts of case_studies/hildesheim_study:             *)
(*   create_complete_hildesheim.py  and  write_complete_script.py.         *)
(* Each opens hildesheim_production.R in text mode 'w', writes one string  *)
(* literal, leaves the with block (close) and prints status lines.         *)
(*                                                                         *)
(* A text is a sequence of characters.  A maximal run of ASCII characters  *)
(* other than the line feed is kept as one string; the line feed is the    *)
(* string "\n".  A file's data is a sequence of bytes in the same manner.  *)
(***************************************************************************)
EXTENDS Integers, Sequences, FiniteSets

\* ---------------------------------------------------------------- bounds
MaxRuns == 2        \* runs of a script, one after the other
MaxPriorLen == 2    \* length of short unrelated content found at the target

\* ------------------------------------------------------- program constants
Scripts == {"create_complete_hildesheim.py", "write_complete_script.py"}

\* The file name both open() calls name.
TargetName == "hildesheim_production.R"

NonAsciiChars == {"U+00FC"}

\* The literal passed to f.write in create_complete_hildesheim.py.
InlinePayload ==
  << "# =============================================================================", "\n",
     "# HILFO STUDIE - PRODUCTION VERSION WITH COMPLETE DATA RECORDING", "\n",
     "# =============================================================================", "\n",
     "# All variables recorded with proper names, cloud storage enabled", "\n",
     "# NOW WITH PROGRAMMING ANXIETY ADDED (2 pages before BFI)", "\n",
     "\n",
     "library(inrep)", "\n",
     "# Don't load heavy packages at startup - load them only when needed", "\n",
     "\n",
     "# =============================================================================", "\n",
     "# CLOUD STORAGE CREDENTIALS - Hildesheim Study Folder", "\n",
     "# =============================================================================", "\n",
     "# Public WebDAV folder: https://sync.academiccloud.de/index.php/s/OUarlqGbhYopkBc", "\n",
     "WEBDAV_URL <- \"https://sync.academiccloud.de/public.php/webdav/\"", "\n",
     "WEBDAV_PASSWORD <- \"ws2526\"", "\n",
     "WEBDAV_SHARE_TOKEN <- \"OUarlqGbhYopkBc\"  # Share token for authentication", "\n" >>

\* complete_script with a non-ASCII character in its first comment line.
complete_script_umlaut ==
  << "# HILFO STUDIE F", "U+00FC", "R HILDESHEIM", "\n" >> \o InlinePayload

\* complete_script without the line feed that ends its last line.
complete_script_no_eol == SubSeq(InlinePayload, 1, Len(InlinePayload) - 1)

\* The literal bound to complete_script in write_complete_script.py.
complete_script ==
  << "# =============================================================================", "\n",
     "# HILFO STUDIE - PRODUCTION VERSION WITH COMPLETE DATA RECORDING", "\n",
     "# =============================================================================", "\n",
     "# All variables recorded with proper names, cloud storage enabled", "\n",
     "# NOW WITH PROGRAMMING ANXIETY ADDED (2 pages before BFI)", "\n",
     "\n",
     "library(inrep)", "\n",
     "# Don't load heavy packages at startup - load them only when needed", "\n",
     "\n",
     "# =============================================================================", "\n",
     "# CLOUD STORAGE CREDENTIALS - Hildesheim Study Folder", "\n",
     "# =============================================================================", "\n",
     "# Public WebDAV folder: https://sync.academiccloud.de/index.php/s/OUarlqGbhYopkBc", "\n",
     "WEBDAV_URL <- \"https://sync.academiccloud.de/public.php/webdav/\"", "\n",
     "WEBDAV_PASSWORD <- \"ws2526\"", "\n",
     "WEBDAV_SHARE_TOKEN <- \"OUarlqGbhYopkBc\"  # Share token for authentication", "\n" >>

\* The text a script writes.
PayloadOf(s) == IF s = "create_complete_hildesheim.py" THEN InlinePayload ELSE complete_script

\* Mode 'a': keep what the file holds and write after it.
OpenModeAppend == "a"

\* The mode both open() calls name: create the file, or truncate it.
OpenMode == "w"

\* The statements of a script's body without the close of the file.
StatementsNoClose(s) ==
  IF s = "create_complete_hildesheim.py"
  THEN << "open", "write", "print", "print", "print" >>
  ELSE << "open", "write", "print" >>

\* The statements of a script's body with the first print inside the with block.
StatementsPrintInside(s) ==
  IF s = "create_complete_hildesheim.py"
  THEN << "open", "write", "print", "close", "print", "print" >>
  ELSE << "open", "write", "print", "close" >>

\* The statements of a script's body, in program order: the with statement
\* opens, its body writes, leaving it closes; the prints follow.
Statements(s) ==
  IF s = "create_complete_hildesheim.py"
  THEN << "open", "write", "close", "print", "print", "print" >>
  ELSE << "open", "write", "close", "print" >>

\* The lines a script prints, in order.
StatusMessages(s) ==
  IF s = "create_complete_hildesheim.py"
  THEN << "Script created successfully!",
          "File: hildesheim_production.R",
          "Now run: python3 create_complete_hildesheim.py" >>
  ELSE << "File started. Now appending the rest..." >>

\* An except clause that drops the error and goes on after the with statement.
HandlerSwallow == "swallow"

\* An except clause that runs the with statement again.
HandlerRetry == "retry"

\* Neither script has a try statement: an error leaves the module body.
Handler == "propagate"

\* ------------------------------------------------------------ environment
\* The scripts are run in the directory they lie in.
WorkingDir == "hildesheim_study"
Dirs == {WorkingDir, "elsewhere"}
Names == {TargetName, "notes.txt"}
Paths == Dirs \X Names
LineSeps == { << "\n" >>, << "\r", "\n" >> }
LocaleEncodings == {"utf-8", "cp1252", "ascii"}
Argvs == { << >>, << "notes.txt" >> }
Environs == {"", "notes.txt"}

Junk(n) == [i \in 1..n |-> "x"]
NoFile == [exists |-> FALSE, data |-> << >>, writable |-> FALSE]
File(d, w) == [exists |-> TRUE, data |-> d, writable |-> w]
NoHandle == [open |-> FALSE, path |-> << "", "" >>, buf |-> << >>]
NoPrev == [ran |-> FALSE, ok |-> FALSE, script |-> ""]

\* Content found at the target before the first run: short, or longer than
\* anything a run writes.
PriorContents ==
  {Junk(n) : n \in 0..MaxPriorLen}
    \cup {Junk(2 * Len(complete_script) + n) : n \in 1..MaxPriorLen}

VARIABLES
  linesep,         \* os.linesep of the platform
  localeEncoding,  \* the encoding open() takes when none is named
  environ,         \* the process environment
  cwd,             \* the directory the relative target path is resolved in
  dirState,        \* per directory: "missing", "ro" (no entry may be added), "rw"
  fs,              \* per path: the file there
  runs,            \* runs started so far
  script,          \* the script of the current run
  argv,            \* its command line arguments
  state,           \* "idle", "running", "raised", "exited"
  pc,              \* index of the next statement of the body
  handle,          \* the file object of the with statement
  exc,             \* the exception raised, "none" when none
  exitCode,        \* exit status of the finished run
  stdout,          \* lines printed
  stderr,          \* diagnostics printed
  events,          \* file and print operations of the current run, in order
  pre,             \* the target file when the current run started
  prev             \* how the run before the current one ended

vars == << linesep, localeEncoding, environ, cwd, dirState, fs, runs, script, argv,
           state, pc, handle, exc, exitCode, stdout, stderr, events, pre, prev >>

\* ---------------------------------------------------------------- helpers
\* The path the claims name, resolved in the working directory.
ClaimedPath == << cwd, "hildesheim_production.R" >>

\* The path open() is given, with the first command line argument as file name.
TargetPathFromArgv == << cwd, IF argv # << >> THEN argv[1] ELSE TargetName >>

\* The path open() is given: the relative name, resolved in the working directory.
TargetPath == << cwd, TargetName >>

\* open() without an encoding argument takes the locale's encoding.
EncodingOf(s) == IF s = "create_complete_hildesheim.py" THEN "utf-8" ELSE localeEncoding

Encodable(c, enc) == c \notin NonAsciiChars \/ enc # "ascii"

\* The bytes of one character.
EncodeChar(c, enc) ==
  IF c \in NonAsciiChars
  THEN (IF enc = "utf-8" THEN << "0xC3", "0xBC" >> ELSE << "0xFC" >>)
  ELSE << c >>

\* str.encode: the bytes of a text, no character translated.
RECURSIVE Encode(_, _)
Encode(text, enc) ==
  IF text = << >> THEN << >>
  ELSE EncodeChar(Head(text), enc) \o Encode(Tail(text), enc)

\* Text mode with newline=None: every line feed written becomes os.linesep.
RECURSIVE TranslateNewlines(_, _)
TranslateNewlines(text, sep) ==
  IF text = << >> THEN << >>
  ELSE (IF Head(text) = "\n" THEN sep ELSE << Head(text) >>)
         \o TranslateNewlines(Tail(text), sep)

\* What f.write(text) hands to the buffer of a file opened in text mode.
TextEncode(text, enc, sep) == Encode(TranslateNewlines(text, sep), enc)

\* The bytes a complete run of script s puts in the file.
Out(s) == TextEncode(PayloadOf(s), EncodingOf(s), linesep)

\* open() for writing fails with the directory of the path missing; creating the
\* file takes a directory that accepts a new entry.
CanOpenIgnoringFileMode(p) ==
  /\ dirState[p[1]] # "missing"
  /\ fs[p].exists \/ dirState[p[1]] = "rw"

\* open() for writing: truncating a file that exists takes write permission
\* on the file, and none on its directory.
CanOpen(p) ==
  /\ dirState[p[1]] # "missing"
  /\ IF fs[p].exists THEN fs[p].writable ELSE dirState[p[1]] = "rw"

OpenError(p) == IF dirState[p[1]] = "missing" THEN "FileNotFoundError" ELSE "PermissionError"

\* The file at a path right after a successful open().
Opened(f) ==
  IF f.exists
  THEN (IF OpenMode = "w" THEN File(<< >>, f.writable) ELSE f)
  ELSE File(<< >>, TRUE)

Stmt == IF pc \in 1..Len(Statements(script)) THEN Statements(script)[pc] ELSE "end"

Count(seq, e) == Cardinality({i \in 1..Len(seq) : seq[i] = e})

\* Index of the first statement after the with statement.
AfterWith ==
  LET S == Statements(script)
      inside == {i \in 1..Len(S) : S[i] \in {"open", "write", "close"}}
  IN  (CHOOSE i \in inside : \A j \in inside : j <= i) + 1

\* Where control goes when a statement raises.
Raise ==
  CASE Handler = "propagate" -> [state |-> "raised", pc |-> pc]
    [] Handler = "swallow"   -> [state |-> "running", pc |-> AfterWith]
    [] OTHER                 -> [state |-> "running", pc |-> 1]

\* ------------------------------------------------------------------- Init
Init ==
  /\ linesep \in LineSeps
  /\ localeEncoding \in LocaleEncodings
  /\ environ \in Environs
  /\ cwd = WorkingDir
  /\ dirState \in [Dirs -> {"missing", "ro", "rw"}]
  /\ \A d \in Dirs : d # cwd => dirState[d] = "rw"
  /\ \E t \in {NoFile} \cup {File(c, w) : c \in PriorContents, w \in BOOLEAN} :
       /\ dirState[cwd] = "missing" => t = NoFile
       /\ fs = [p \in Paths |->
                  IF p = << cwd, TargetName >> THEN t
                  ELSE IF dirState[p[1]] = "missing" THEN NoFile
                  ELSE File(Junk(1), TRUE)]
  /\ runs = 0
  /\ script = "create_complete_hildesheim.py"
  /\ argv = << >>
  /\ state = "idle"
  /\ pc = 1
  /\ handle = NoHandle
  /\ exc = "none"
  /\ exitCode = -1
  /\ stdout = << >>
  /\ stderr = << >>
  /\ events = << >>
  /\ pre = fs[<< cwd, TargetName >>]
  /\ prev = NoPrev

\* ---------------------------------------------------------------- actions
\* python3 <script> <args>: a new interpreter runs the script's body.
Start(s, a) ==
  /\ state \in {"idle", "exited"}
  /\ runs < MaxRuns
  /\ runs' = runs + 1
  /\ script' = s
  /\ argv' = a
  /\ state' = "running"
  /\ pc' = 1
  /\ handle' = NoHandle
  /\ exc' = "none"
  /\ exitCode' = -1
  /\ stdout' = << >>
  /\ stderr' = << >>
  /\ events' = << >>
  /\ pre' = fs[ClaimedPath]
  /\ prev' = IF state = "exited"
             THEN [ran |-> TRUE, ok |-> exitCode = 0, script |-> script]
             ELSE NoPrev
  /\ UNCHANGED << linesep, localeEncoding, environ, cwd, dirState, fs >>

\* with open('hildesheim_production.R', 'w', ...) as f:
Open ==
  /\ state = "running" /\ Stmt = "open"
  /\ events' = Append(events, "open")
  /\ IF CanOpen(TargetPath)
     THEN /\ fs' = [fs EXCEPT ![TargetPath] = Opened(@)]
          /\ handle' = [open |-> TRUE, path |-> TargetPath, buf |-> << >>]
          /\ pc' = pc + 1
          /\ UNCHANGED << state, exc >>
     ELSE /\ exc' = OpenError(TargetPath)
          /\ state' = Raise.state
          /\ pc' = Raise.pc
          /\ UNCHANGED << fs, handle >>
  /\ UNCHANGED << linesep, localeEncoding, environ, cwd, dirState, runs, script, argv,
                  exitCode, stdout, stderr, pre, prev >>

\* f.write(<literal>): the text is encoded into the file object's buffer.  A
\* character the encoding lacks raises, and the with statement closes the file.
Write ==
  /\ state = "running" /\ Stmt = "write" /\ handle.open
  /\ events' = Append(events, "write")
  /\ IF \A i \in 1..Len(PayloadOf(script)) : Encodable(PayloadOf(script)[i], EncodingOf(script))
     THEN /\ handle' = [handle EXCEPT !.buf = @ \o Out(script)]
          /\ pc' = pc + 1
          /\ UNCHANGED << state, exc >>
     ELSE /\ exc' = "UnicodeEncodeError"
          /\ handle' = NoHandle
          /\ state' = Raise.state
          /\ pc' = Raise.pc
  /\ UNCHANGED << linesep, localeEncoding, environ, cwd, dirState, fs, runs, script, argv,
                  exitCode, stdout, stderr, pre, prev >>

\* Leaving the with block: close() flushes the buffer to the file and releases
\* the handle.  The flush stores all of the buffer, or stops short with an
\* OSError (disk full, I/O error) after k bytes; the handle is released either way.
Close ==
  /\ state = "running" /\ Stmt = "close" /\ handle.open
  /\ events' = Append(events, "close")
  /\ \E k \in 0..Len(handle.buf) :
       /\ fs' = [fs EXCEPT ![handle.path].data = @ \o SubSeq(handle.buf, 1, k)]
       /\ IF k = Len(handle.buf)
          THEN /\ pc' = pc + 1
               /\ UNCHANGED << state, exc >>
          ELSE /\ exc' = "OSError"
               /\ state' = Raise.state
               /\ pc' = Raise.pc
  /\ handle' = NoHandle
  /\ UNCHANGED << linesep, localeEncoding, environ, cwd, dirState, runs, script, argv,
                  exitCode, stdout, stderr, pre, prev >>

\* print(<message>)
PrintStatus ==
  /\ state = "running" /\ Stmt = "print"
  /\ events' = Append(events, "print")
  /\ stdout' = Append(stdout, StatusMessages(script)[Len(stdout) + 1])
  /\ pc' = pc + 1
  /\ UNCHANGED << linesep, localeEncoding, environ, cwd, dirState, fs, runs, script, argv,
                  state, handle, exc, exitCode, stderr, pre, prev >>

\* The body ran to its end: the interpreter exits with status 0.
Exit ==
  /\ state = "running" /\ Stmt = "end"
  /\ state' = "exited"
  /\ exitCode' = 0
  /\ UNCHANGED << linesep, localeEncoding, environ, cwd, dirState, fs, runs, script, argv,
                  pc, handle, exc, stdout, stderr, events, pre, prev >>

\* An exception left the body: the interpreter prints the traceback on the
\* standard error stream and exits with status 1.
Traceback ==
  /\ state = "raised"
  /\ state' = "exited"
  /\ exitCode' = 1
  /\ stderr' = Append(stderr, exc)
  /\ UNCHANGED << linesep, localeEncoding, environ, cwd, dirState, fs, runs, script, argv,
                  pc, handle, exc, stdout, events, pre, prev >>

Next ==
  \/ \E s \in Scripts, a \in Argvs : Start(s, a)
  \/ Open
  \/ Write
  \/ Close
  \/ PrintStatus
  \/ Exit
  \/ Traceback

Spec == Init /\ [][Next]_vars

\* ----------------------------------------------------------------- claims
Done == state = "exited"
Succeeded == Done /\ exitCode = 0
Target == fs[ClaimedPath]
OpenFailed == exc \in {"FileNotFoundError", "PermissionError"}
WriteFailed == exc \in {"OSError", "UnicodeEncodeError"}
IsPrefix(a, b) == Len(a) <= Len(b) /\ a = SubSeq(b, 1, Len(a))
IsProperPrefix(a, b) == Len(a) < Len(b) /\ IsPrefix(a, b)
IsFileOp(e) == e # "print"
FileOps(ev) == SelectSeq(ev, IsFileOp)

\* C1 as stated: after a successful run of either script the target exists and
\* holds exactly the UTF-8 encoding of the Payload, character for character.
C1_Original ==
  Succeeded =>
    /\ Target.exists
    /\ Target.data = Encode(PayloadOf(script), "utf-8")

\* C1 amended: after a successful run of either script, whatever the target was
\* before, the target exists and holds exactly the UTF-8 encoding of the Payload
\* with every line feed written as the platform's line separator; where that
\* separator is the line feed, this is the UTF-8 encoding of the Payload itself.
C1_ExactContents ==
  Succeeded =>
    /\ Target.exists
    /\ Target.data = TextEncode(PayloadOf(script), "utf-8", linesep)
    /\ linesep = << "\n" >> => Target.data = Encode(PayloadOf(script), "utf-8")

C1_Witness ==
  /\ Succeeded
  /\ script = "write_complete_script.py"
  /\ localeEncoding = "cp1252"
  /\ pre.exists /\ Len(pre.data) > Len(Target.data)
  /\ Target.data = Encode(PayloadOf(script), "utf-8")

\* C2: a successful run that follows a successful run leaves the target exactly
\* as the first run left it, and never with two copies of the Payload.
C2_Idempotent ==
  (Succeeded /\ prev.ran /\ prev.ok) =>
    /\ Target = pre
    /\ Target.data # Out(script) \o Out(script)
    /\ Len(Target.data) = Len(Out(script))

C2_Witness ==
  /\ Succeeded /\ prev.ran /\ prev.ok
  /\ prev.script = script
  /\ Target.data = Out(script)

\* C3: a finished run has exit code 0 exactly when neither the open nor the
\* write failed; after a failure the exit code is non-zero and a diagnostic is
\* on the standard error stream.
C3_ExitCodes ==
  Done =>
    /\ exitCode = 0 <=> exc = "none"
    /\ exc # "none" => (exitCode # 0 /\ stderr # << >>)
    /\ exitCode = 0 => (stderr = << >> /\ Target.exists)

C3_Witness ==
  /\ Done
  /\ exc = "OSError"
  /\ exitCode = 1
  /\ stderr = << "OSError" >>

\* C4 as stated: with the working directory missing or not writable, a finished
\* run has reported an error and the target is as it was before the run.
C4_Original ==
  (Done /\ dirState[cwd] # "rw") =>
    /\ exitCode # 0
    /\ stderr # << >>
    /\ Target = pre

\* C4 amended: with the directory missing, or read-only and no file at the
\* target, or the file at the target not writable, a finished run has reported
\* an error and the target is as it was before the run.
C4_OpenFailureLeavesTarget ==
  (Done /\ (\/ dirState[cwd] = "missing"
            \/ (dirState[cwd] = "ro" /\ ~pre.exists)
            \/ (pre.exists /\ ~pre.writable))) =>
    /\ exitCode # 0
    /\ stderr # << >>
    /\ Target = pre
    /\ stdout = << >>

C4_Witness ==
  /\ Done
  /\ dirState[cwd] = "ro"
  /\ pre.exists /\ ~pre.writable /\ pre.data # << >>
  /\ exitCode = 1
  /\ Target = pre

\* C5 as stated: a finished run either succeeded with the complete Payload in
\* the file, or failed; and a run whose write failed after a successful open
\* did not leave the file truncated or holding part of the Payload.
C5_Original ==
  Done =>
    \/ (exitCode = 0 /\ Target.data = Out(script))
    \/ (exitCode # 0 /\ (WriteFailed => ~IsProperPrefix(Target.data, Out(script))))

\* C5 amended: a finished run either succeeded (exit code 0, the complete
\* Payload in the file) or failed (non-zero exit code); a run whose open failed
\* left the target as it was, and a run whose write failed after a successful
\* open left the file truncated or holding a proper prefix of the Payload.
C5_TwoOutcomes ==
  Done =>
    \/ (exitCode = 0 /\ exc = "none" /\ Target.exists /\ Target.data = Out(script))
    \/ (exitCode # 0 /\ OpenFailed /\ Target = pre)
    \/ (exitCode # 0 /\ WriteFailed /\ Target.exists
          /\ IsProperPrefix(Target.data, Out(script)))

C5_Witness ==
  /\ Done
  /\ exc = "OSError"
  /\ pre.exists /\ Len(pre.data) > Len(Out(script))
  /\ Target.data # << >>
  /\ IsProperPrefix(Target.data, Out(script))

\* C6: once the with statement has been left, by its end or by an error, and in
\* every finished run, no file handle is open.
C6_HandleReleased ==
  (state \in {"raised", "exited"}) => ~handle.open

C6_Witness ==
  /\ Done
  /\ exc = "OSError"
  /\ Count(events, "open") = 1
  /\ ~handle.open

\* C7: no step changes a file other than the one at hildesheim_production.R in
\* the working directory, nor the environment, the working directory or a
\* directory's state; an open handle is on that path whatever the arguments
\* and the environment are.
C7_Frame ==
  [][ /\ \A p \in Paths : p # ClaimedPath => fs'[p] = fs[p]
      /\ environ' = environ
      /\ cwd' = cwd
      /\ dirState' = dirState
      /\ handle'.open => handle'.path = << cwd, "hildesheim_production.R" >> ]_vars

C7_Witness ==
  /\ Done
  /\ argv # << >>
  /\ environ # ""
  /\ Target # pre
  /\ \A p \in Paths : p # ClaimedPath => fs[p] = File(Junk(1), TRUE)

\* C8: the two literals are the same text; a successful run of either script
\* leaves at the target what a successful run of the other leaves there; and a
\* successful run of one right after a successful run of the other leaves the
\* target as it found it.
C8_Duplicates ==
  /\ InlinePayload = complete_script
  /\ Succeeded => \A s \in Scripts : Target.data = Out(s)
  /\ (Succeeded /\ prev.ran /\ prev.ok /\ prev.script # script) => Target = pre

C8_Witness ==
  /\ Succeeded /\ prev.ran /\ prev.ok
  /\ prev.script = "write_complete_script.py"
  /\ script = "create_complete_hildesheim.py"
  /\ localeEncoding # "utf-8"

\* C9: in every run the file is opened at most once and written at most once,
\* and once an open or a write has failed no step of the run opens, writes or
\* closes a file or changes one.
C9_NoRetry ==
  [][ /\ Count(events', "open") <= 1
      /\ Count(events', "write") <= 1
      /\ (exc # "none" /\ state \in {"running", "raised"}) =>
           (fs' = fs /\ handle' = handle /\ FileOps(events') = FileOps(events)) ]_vars

C9_Witness ==
  /\ Done
  /\ exc = "OSError"
  /\ FileOps(events) = << "open", "write", "close" >>
  /\ Target # pre

\* C10: the operations of a run happen in the order open, write, close, print;
\* when a status line has been printed the file is closed, holds the complete
\* Payload, and neither the open nor the write failed.
C10_Ordering ==
  /\ IsPrefix(events, << "open", "write", "close", "print", "print", "print" >>)
  /\ stdout # << >> =>
       /\ ~handle.open
       /\ exc = "none"
       /\ Target.exists
       /\ Target.data = Out(script)

C10_Witness ==
  /\ Done
  /\ events = << "open", "write", "close", "print", "print", "print" >>
  /\ Len(stdout) = 3

====
